---- MODULE Spec2Model ----
(***************************************************************************)
(* UniLand: the submission review workflow (plugins/admin/confirmation.py) *)
(* over the Submission objects of db/tables.py.                            *)
(*                                                                         *)
(* Spec        the handlers of confirmation.py.  Pyrogram runs them as     *)
(*             coroutines on one event loop, so a handler is atomic        *)
(*             between two awaits; every action below is one such          *)
(*             segment.                                                    *)
(* SpecConfirm Submission.confirm executed statement by statement on one   *)
(*             Submission object.                                          *)
(*                                                                         *)
(* Strings are sequences of words; the Persian literals of tables.py are   *)
(* transliterated.                                                         *)
(***************************************************************************)
EXTENDS Integers, Sequences, FiniteSets, TLC

\* ------------------------------------------------------------- bounds
MaxSubs == 2
NumUsers == 2
MaxLevel == 3

Users == 1..NumUsers
SubIds == 1..MaxSubs
Levels == 1..MaxLevel

\* ---------------------------------------------------------- constants
\* Python None, for a reference held as an integer id
None == 0
\* "2 is Editor access"
EditorLevel == 2
\* access_level(min=2) on the two message handlers
PanelMinLevel == 2
\* 'namoshakhas': the unspecified sentinel of the text fields
Unspecified == "namoshakhas"
\* the values DocType members carry (utils/enums.py)
DocTypeValues == {"jozve"}
NoFileType == "None"

VARIABLES
  access_level,    \* User.access_level, by user_id
  last_step,       \* User.last_step, by user_id
  submissions,     \* the submissions table: id -> Submission
  next_id,         \* the autoincrement of Submission.id
  reviewing_subs,  \* the dict of confirmation.py, in insertion order
  rejecting,       \* reject_submission coroutines suspended at line 109
  last,            \* history: the handler segment that ran last
  returned,        \* history: <<sub, admin>> handed out by admin_confirmation
  pressed,         \* history: the submission of the reject button that put
                   \* the admin at the reason prompt, by user_id
  obj,             \* SpecConfirm: the Submission object
  arg,             \* SpecConfirm: the user argument of confirm
  cpc,             \* SpecConfirm: position inside confirm
  pre              \* SpecConfirm: the object when confirm was called

wvars == <<access_level, last_step, submissions, next_id, reviewing_subs,
           rejecting, last, returned, pressed>>
cvars == <<obj, arg, cpc, pre>>
vars == <<access_level, last_step, submissions, next_id, reviewing_subs,
          rejecting, last, returned, pressed, obj, arg, cpc, pre>>

\* ------------------------------------------------- db/tables.py: User
NoUser == [user_id |-> None, access_level |-> 0]

User(user_id, level) == [user_id |-> user_id, access_level |-> level]

\* ------------------------------------------- db/tables.py: Submission
\* One record shape for the four mapped classes; a field a class does not
\* have holds "".
Submission(university, faculty) ==
  [kind |-> "submission", is_confirmed |-> FALSE, admin |-> None,
   university |-> university, faculty |-> faculty, search_text |-> <<>>,
   file_type |-> "", course |-> "", professor |-> "", writer |-> "",
   semester_year |-> 0, title |-> ""]

Document(file_type, course, professor, writer, semester_year, university) ==
  [Submission(university, Unspecified) EXCEPT
     !.kind = "document", !.file_type = file_type, !.course = course,
     !.professor = professor, !.writer = writer,
     !.semester_year = semester_year]

Profile(title, faculty, university) ==
  [Submission(university, faculty) EXCEPT !.kind = "profile", !.title = title]

Media(course, professor, semester_year, faculty, university) ==
  [Submission(university, faculty) EXCEPT
     !.kind = "media", !.course = course, !.professor = professor,
     !.semester_year = semester_year]

\* f' ostad {x}' and the like: one clause of the search text
Clause(word, value) == <<word, value>>

\* (mutant: the tests of lines 154 and 156 in the other order)
DocumentSearchText_writer_first(self) ==
  LET base == <<self.file_type, "dars", self.course>>
      s1 == IF self.writer # Unspecified
            THEN base \o Clause("nevisande", self.writer) ELSE base
      s2 == IF self.professor # Unspecified
            THEN s1 \o Clause("ostad", self.professor) ELSE s1
      s3 == IF self.semester_year # 0
            THEN s2 \o Clause("sal", ToString(self.semester_year)) ELSE s2
  IN  IF self.university # Unspecified
      THEN s3 \o Clause("daneshgah", self.university) ELSE s3

DocumentSearchText(self) ==
  LET base == <<self.file_type, "dars", self.course>>
      s1 == IF self.professor # Unspecified
            THEN base \o Clause("ostad", self.professor) ELSE base
      s2 == IF self.writer # Unspecified
            THEN s1 \o Clause("nevisande", self.writer) ELSE s1
      s3 == IF self.semester_year # 0
            THEN s2 \o Clause("sal", ToString(self.semester_year)) ELSE s2
  IN  IF self.university # Unspecified
      THEN s3 \o Clause("daneshgah", self.university) ELSE s3

\* (mutant: lines 218-219 left out, the faculty is not appended again)
ProfileSearchText_faculty_once(self) ==
  LET base == <<"ettelaat", self.title, "daneshkade", self.faculty>>
  IN  IF self.university # Unspecified
      THEN base \o Clause("daneshgah", self.university) ELSE base

ProfileSearchText(self) ==
  LET base == <<"ettelaat", self.title, "daneshkade", self.faculty>>
      s1 == IF self.faculty # Unspecified
            THEN base \o Clause("daneshkade", self.faculty) ELSE base
  IN  IF self.university # Unspecified
      THEN s1 \o Clause("daneshgah", self.university) ELSE s1

MediaSearchText(self) ==
  LET base == <<"film", "dars", self.course, "ostad", self.professor>>
      s1 == IF self.faculty # Unspecified
            THEN base \o Clause("daneshkade", self.faculty) ELSE base
      s2 == IF self.semester_year # 0
            THEN s1 \o Clause("sal", ToString(self.semester_year)) ELSE s1
  IN  IF self.university # Unspecified
      THEN s2 \o Clause("daneshgah", self.university) ELSE s2

\* update_search_text raises: NotImplementedError on the base class,
\* AttributeError on a Document whose file_type is None (None.value)
update_search_text_raises(self) ==
  \/ self.kind = "submission"
  \/ self.kind = "document" /\ self.file_type = NoFileType

SearchText(self) ==
  CASE self.kind = "document" -> DocumentSearchText(self)
    [] self.kind = "profile" -> ProfileSearchText(self)
    [] self.kind = "media" -> MediaSearchText(self)
    [] OTHER -> self.search_text

update_search_text(self) == [self EXCEPT !.search_text = SearchText(self)]

\* Submission.confirm, line by line
\* (mutant: the comparison with Editor made strict)
confirm_denied_strict(user) ==
  user = NoUser \/ user.access_level < EditorLevel

confirm_denied(user) == user = NoUser \/ user.access_level <= EditorLevel

\* (mutant: line 102 left out)
confirm_set_admin_skipped(self, user) == self

confirm_set_admin(self, user) == [self EXCEPT !.admin = user.user_id]

confirm_set_flag(self) == [self EXCEPT !.is_confirmed = TRUE]

\* a confirm call that runs to its end
confirm(self, user) ==
  update_search_text(confirm_set_flag(confirm_set_admin(self, user)))

confirm_raises(self, user) ==
  confirm_denied(user) \/ update_search_text_raises(self)

\* --------------------------------- db/submission_methods.py (subs_db)
\* The ids of a set, ascending
RECURSIVE Ascending(_)
Ascending(S) ==
  IF S = {} THEN <<>>
  ELSE LET m == CHOOSE x \in S : \A y \in S : x <= y
       IN  <<m>> \o Ascending(S \ {m})

\* listUnconfirmed: the unconfirmed submissions, oldest first; Submission.id
\* is the autoincrement, so the oldest has the smallest id
get_unconfirmed_submissions ==
  Ascending({s \in DOMAIN submissions : ~submissions[s].is_confirmed})

\* get_submission(id) finds a row or gives None
found(sub_id) == sub_id \in DOMAIN submissions

\* confirm_user_submission(admin_id, sub_id): the row's confirm, with the
\* user of that id
confirm_user_submission_raises(admin_id, sub_id) ==
  \/ ~found(sub_id)
  \/ confirm_raises(submissions[sub_id], User(admin_id, access_level[admin_id]))

confirm_user_submission(admin_id, sub_id) ==
  [submissions EXCEPT
     ![sub_id] = confirm(@, User(admin_id, access_level[admin_id]))]

\* delete_submission(id) fails on an id that is not in the table
delete_submission_raises(sub_id) == ~found(sub_id)

\* delete_submission(id)
delete_submission(sub_id) ==
  [s \in DOMAIN submissions \ {sub_id} |-> submissions[s]]

\* ------------------------------------------- the dict reviewing_subs
Entry(sub_id, admin_id) == [sub |-> sub_id, admin |-> admin_id]

Keys(d) == {d[i].sub : i \in DOMAIN d}

Get(d, k) == d[CHOOSE i \in DOMAIN d : d[i].sub = k].admin

\* d[k] = v: an existing key keeps its place, a new one goes last
DictSet(d, k, v) ==
  IF k \in Keys(d)
  THEN [i \in DOMAIN d |-> IF d[i].sub = k THEN Entry(k, v) ELSE d[i]]
  ELSE Append(d, Entry(k, v))

\* (mutant: pop removes nothing)
DictPop_nothing(d, k) == d

DictPop(d, k) == SelectSeq(d, LAMBDA e : e.sub # k)

\* ----------------------------------------- plugins/admin/confirmation.py
\* the filters of the two message handlers
access_level_filter(u) == access_level[u] >= PanelMinLevel

user_step_filter(u, step) == last_step[u] = step

\* (mutant: the test of line 57 left out)
first_unreviewed_any(unconfirmed_subs, d) ==
  IF unconfirmed_subs = <<>> THEN None ELSE Head(unconfirmed_subs)

\* (mutant: the break of line 60 left out, so the last match wins)
RECURSIVE first_unreviewed_no_break(_, _)
first_unreviewed_no_break(unconfirmed_subs, d) ==
  IF unconfirmed_subs = <<>> THEN None
  ELSE LET later == first_unreviewed_no_break(Tail(unconfirmed_subs), d)
       IN  IF later # None THEN later
           ELSE IF Head(unconfirmed_subs) \notin Keys(d)
                THEN Head(unconfirmed_subs) ELSE None

\* lines 54-60: the first unconfirmed submission that is in nobody's review
RECURSIVE first_unreviewed(_, _)
first_unreviewed(unconfirmed_subs, d) ==
  IF unconfirmed_subs = <<>> THEN None
  ELSE IF Head(unconfirmed_subs) \notin Keys(d) THEN Head(unconfirmed_subs)
  ELSE first_unreviewed(Tail(unconfirmed_subs), d)

\* lines 103-106: the loop has no break, the last entry of the admin wins
RECURSIVE active_submission(_, _, _)
active_submission(d, admin_id, sub_id) ==
  IF d = <<>> THEN sub_id
  ELSE active_submission(Tail(d), admin_id,
         IF Head(d).admin = admin_id THEN Head(d).sub ELSE sub_id)

\* history: the handler that ran and how it ended
Did(op, result) == [op |-> op, result |-> result]

\* what a submission plugin constructs: the constructors' defaults, with the
\* required fields given
NewSubmission(kind) ==
  CASE kind = "document" ->
         Document("jozve", "riazi", Unspecified, "ali", 0, Unspecified)
    [] kind = "profile" -> Profile("ostad_x", "barq", Unspecified)
    [] OTHER -> Media("riazi", "ostad_x", 0, Unspecified, Unspecified)

\* the class of the submission that gets a given id: the three classes in turn
KindOf(sub_id) ==
  CASE sub_id % 3 = 1 -> "document"
    [] sub_id % 3 = 2 -> "profile"
    [] OTHER -> "media"

\* a submission plugin stores a new submission
Submit ==
  /\ next_id <= MaxSubs
  /\ submissions' = [s \in DOMAIN submissions \cup {next_id} |->
                       IF s = next_id THEN NewSubmission(KindOf(next_id))
                       ELSE submissions[s]]
  /\ next_id' = next_id + 1
  /\ last' = Did("submit", "ok")
  /\ UNCHANGED <<access_level, last_step, reviewing_subs, rejecting,
                 returned, pressed, cvars>>

\* lines 46-68
admin_confirmation(admin_id) ==
  /\ user_step_filter(admin_id, "ADMIN_PANEL")
  /\ access_level_filter(admin_id)
  /\ LET sub_id == first_unreviewed(get_unconfirmed_submissions,
                                    reviewing_subs)
     IN  IF sub_id = None
         THEN /\ last' = Did("admin_confirmation", "none")
              /\ UNCHANGED <<reviewing_subs, returned>>
         ELSE /\ reviewing_subs' = DictSet(reviewing_subs, sub_id, admin_id)
              /\ returned' = returned \cup {<<sub_id, admin_id>>}
              \* reply_document(document=sub.file_id): only a Document
              \* has a file_id
              /\ last' = Did("admin_confirmation",
                             IF submissions[sub_id].kind = "document"
                             THEN "ok" ELSE "AttributeError")
  /\ UNCHANGED <<access_level, last_step, submissions, next_id, rejecting,
                 pressed, cvars>>

\* (mutant: lines 78 and 79 in the other order, so an accept whose confirm
\* raises has already dropped the entry)
accept_submission_pop_first(actor, sub_id) ==
  /\ IF sub_id \notin Keys(reviewing_subs)
     THEN /\ last' = Did("accept_submission", "KeyError")
          /\ UNCHANGED <<submissions, reviewing_subs>>
     ELSE LET admin_id == Get(reviewing_subs, sub_id)
          IN  /\ reviewing_subs' = DictPop(reviewing_subs, sub_id)
              /\ IF confirm_user_submission_raises(admin_id, sub_id)
                 THEN /\ last' = Did("accept_submission", "RuntimeError")
                      /\ UNCHANGED submissions
                 ELSE /\ submissions' =
                           confirm_user_submission(admin_id, sub_id)
                      /\ last' = Did("accept_submission", "ok")
  /\ UNCHANGED <<access_level, last_step, next_id, rejecting, returned,
                 pressed, cvars>>

\* lines 71-80; nothing is read before the await of line 73.  actor is
\* callback_query.from_user.id, which the handler never reads.
accept_submission(actor, sub_id) ==
  /\ IF sub_id \notin Keys(reviewing_subs)
     THEN /\ last' = Did("accept_submission", "KeyError")
          /\ UNCHANGED <<submissions, reviewing_subs>>
     ELSE LET admin_id == Get(reviewing_subs, sub_id)
          IN  IF confirm_user_submission_raises(admin_id, sub_id)
              THEN /\ last' = Did("accept_submission", "RuntimeError")
                   /\ UNCHANGED <<submissions, reviewing_subs>>
              ELSE /\ submissions' = confirm_user_submission(admin_id, sub_id)
                   /\ reviewing_subs' = DictPop(reviewing_subs, sub_id)
                   /\ last' = Did("accept_submission", "ok")
  /\ UNCHANGED <<access_level, last_step, next_id, rejecting, returned,
                 pressed, cvars>>

\* lines 83-92; nothing is read before the awaits of lines 86-89, and
\* callback_query.from_user is never read
get_rejection_reason(sub_id) ==
  /\ IF sub_id \notin Keys(reviewing_subs)
     THEN /\ last' = Did("get_rejection_reason", "KeyError")
          /\ UNCHANGED <<last_step, pressed>>
     ELSE LET admin_id == Get(reviewing_subs, sub_id)
          IN  /\ last_step' = [last_step EXCEPT
                                 ![admin_id] = "GET_REJECTION_REASON"]
              /\ pressed' = [pressed EXCEPT ![admin_id] = sub_id]
              /\ last' = Did("get_rejection_reason", "ok")
  /\ UNCHANGED <<access_level, submissions, next_id, reviewing_subs,
                 rejecting, returned, cvars>>

\* lines 96-109: up to the await of message.copy(sub.owner_id).  Coroutines
\* suspended with the same admin and submission are one element of rejecting:
\* once one of them has resumed, the others end in the KeyError of line 110.
reject_submission_begin(admin_id) ==
  /\ user_step_filter(admin_id, "GET_REJECTION_REASON")
  /\ access_level_filter(admin_id)
  /\ LET sub_id == active_submission(reviewing_subs, admin_id, None)
     IN  IF ~found(sub_id)
         THEN \* sub is None: sub.owner_id raises
              /\ last' = Did("reject_submission_begin", "AttributeError")
              /\ UNCHANGED rejecting
         ELSE /\ rejecting' = rejecting \cup {Entry(sub_id, admin_id)}
              /\ last' = Did("reject_submission_begin", "ok")
  /\ UNCHANGED <<access_level, last_step, submissions, next_id,
                 reviewing_subs, returned, pressed, cvars>>

\* (mutant: line 110 pops with a default, so a resumed coroutine whose entry
\* is gone goes on to line 111)
reject_submission_end_pop_default(task) ==
  /\ task \in rejecting
  /\ rejecting' = rejecting \ {task}
  /\ reviewing_subs' = DictPop(reviewing_subs, task.sub)
  /\ submissions' = delete_submission(task.sub)
  /\ last_step' = [last_step EXCEPT ![task.admin] = "ADMIN_PANEL"]
  /\ pressed' = [pressed EXCEPT ![task.admin] = None]
  /\ last' = Did("reject_submission", "ok")
  /\ UNCHANGED <<access_level, next_id, returned, cvars>>

\* lines 110-115: the coroutine resumes
reject_submission_end(task) ==
  /\ task \in rejecting
  /\ rejecting' = rejecting \ {task}
  /\ IF task.sub \notin Keys(reviewing_subs)
     THEN /\ last' = Did("reject_submission", "KeyError")
          /\ UNCHANGED <<submissions, reviewing_subs, last_step, pressed>>
     ELSE /\ reviewing_subs' = DictPop(reviewing_subs, task.sub)
          /\ IF delete_submission_raises(task.sub)
             THEN \* line 111 raises after the pop of line 110
                  /\ last' = Did("reject_submission", "NotFound")
                  /\ UNCHANGED <<submissions, last_step, pressed>>
             ELSE /\ submissions' = delete_submission(task.sub)
                  /\ last_step' = [last_step EXCEPT
                                     ![task.admin] = "ADMIN_PANEL"]
                  /\ pressed' = [pressed EXCEPT ![task.admin] = None]
                  /\ last' = Did("reject_submission", "ok")
  /\ UNCHANGED <<access_level, next_id, returned, cvars>>

\* (mutant: edit releases the review, as accept and reject do)
edit_submission_dict_pop(d, db_sub_id) == DictPop(d, db_sub_id)

\* lines 117-122: what the handler does to the dict and to the table
edit_submission_dict(d, db_sub_id) == d

edit_submission_table(t, db_sub_id) == t

\* callback_query.from_user is never read: the step is the same for any actor
edit_submission(db_sub_id) ==
  /\ reviewing_subs' = edit_submission_dict(reviewing_subs, db_sub_id)
  /\ submissions' = edit_submission_table(submissions, db_sub_id)
  /\ last' = Did("edit_submission", "ok")
  /\ UNCHANGED <<access_level, last_step, next_id, rejecting, returned,
                 pressed, cvars>>

\* Triggers.BACK at the reason prompt: handled by the menu tree, which
\* takes the user back to the admin panel
Back(u) ==
  /\ last_step[u] = "GET_REJECTION_REASON"
  /\ last_step' = [last_step EXCEPT ![u] = "ADMIN_PANEL"]
  /\ pressed' = [pressed EXCEPT ![u] = None]
  /\ last' = Did("back", "ok")
  /\ UNCHANGED <<access_level, submissions, next_id, reviewing_subs,
                 rejecting, returned, cvars>>

ConfirmIdle ==
  /\ obj = Submission(Unspecified, Unspecified)
  /\ arg = NoUser
  /\ cpc = "idle"
  /\ pre = Submission(Unspecified, Unspecified)

\* User ids are opaque to every handler, so one ordering of each choice of
\* levels stands for all of them.
LevelChoices ==
  {f \in [Users -> Levels] :
     \A u \in Users : \A v \in Users : u < v => f[u] >= f[v]}

Init ==
  /\ access_level \in LevelChoices
  /\ last_step = [u \in Users |-> "ADMIN_PANEL"]
  /\ submissions = [s \in {} |-> 0]
  /\ next_id = 1
  /\ reviewing_subs = <<>>
  /\ rejecting = {}
  /\ last = Did("start", "ok")
  /\ returned = {}
  /\ pressed = [u \in Users |-> None]
  /\ ConfirmIdle

Next ==
  \/ Submit
  \/ \E u \in Users : admin_confirmation(u)
  \/ \E u \in Users, s \in SubIds : accept_submission(u, s)
  \/ \E s \in SubIds : get_rejection_reason(s)
  \/ \E u \in Users : reject_submission_begin(u)
  \/ \E task \in rejecting : reject_submission_end(task)
  \/ \E s \in SubIds : edit_submission(s)
  \/ \E u \in Users : Back(u)

Spec == Init /\ [][Next]_vars

\* ------------------------------------------------------- SpecConfirm
\* The objects the constructors of tables.py build, is_confirmed and
\* search_text left at their defaults
Names(x) == {Unspecified, x}

Years == {0, 1401}

NewObjects ==
  {Submission(u, f) : u \in Names("sharif"), f \in Names("barq")}
  \cup {Document(ft, "riazi", p, w, y, u) :
          ft \in DocTypeValues \cup {NoFileType}, p \in Names("ostad_x"),
          w \in Names("ali"), y \in Years, u \in Names("sharif")}
  \cup {Profile("ostad_x", f, u) :
          f \in Names("barq"), u \in Names("sharif")}
  \cup {Media("riazi", p, y, f, u) :
          p \in Names("ostad_x"), y \in Years, f \in Names("barq"),
          u \in Names("sharif")}

\* what a caller may pass to confirm: None, or a user of any level
ConfirmArgs == {NoUser} \cup {User(u, l) : u \in Users, l \in Levels}

WorkflowIdle ==
  /\ access_level = [u \in Users |-> 1]
  /\ last_step = [u \in Users |-> "ADMIN_PANEL"]
  /\ submissions = [s \in {} |-> 0]
  /\ next_id = 1
  /\ reviewing_subs = <<>>
  /\ rejecting = {}
  /\ last = Did("start", "ok")
  /\ returned = {}
  /\ pressed = [u \in Users |-> None]

InitConfirm ==
  /\ WorkflowIdle
  /\ obj \in NewObjects
  /\ arg = NoUser
  /\ cpc = "idle"
  /\ pre = obj

\* sub.confirm(user) is called
ConfirmCall(user) ==
  /\ cpc = "idle"
  /\ arg' = user
  /\ pre' = obj
  /\ cpc' = "line100"
  /\ UNCHANGED <<obj, wvars>>

\* lines 100-101
ConfirmCheck ==
  /\ cpc = "line100"
  /\ cpc' = IF confirm_denied(arg) THEN "RuntimeError" ELSE "line102"
  /\ UNCHANGED <<obj, arg, pre, wvars>>

\* line 102
ConfirmSetAdmin ==
  /\ cpc = "line102"
  /\ obj' = confirm_set_admin(obj, arg)
  /\ cpc' = "line103"
  /\ UNCHANGED <<arg, pre, wvars>>

\* line 103
ConfirmSetFlag ==
  /\ cpc = "line103"
  /\ obj' = confirm_set_flag(obj)
  /\ cpc' = "line104"
  /\ UNCHANGED <<arg, pre, wvars>>

\* line 104
ConfirmUpdate ==
  /\ cpc = "line104"
  /\ IF update_search_text_raises(obj)
     THEN /\ cpc' = IF obj.kind = "submission" THEN "NotImplementedError"
                    ELSE "AttributeError"
          /\ UNCHANGED obj
     ELSE /\ obj' = update_search_text(obj)
          /\ cpc' = "returned"
  /\ UNCHANGED <<arg, pre, wvars>>

\* the call is over, by return or by exception; the object lives on
ConfirmOver ==
  /\ cpc \in {"returned", "RuntimeError", "NotImplementedError",
              "AttributeError"}
  /\ cpc' = "idle"
  /\ UNCHANGED <<obj, arg, pre, wvars>>

NextConfirm ==
  \/ \E user \in ConfirmArgs : ConfirmCall(user)
  \/ ConfirmCheck
  \/ ConfirmSetAdmin
  \/ ConfirmSetFlag
  \/ ConfirmUpdate
  \/ ConfirmOver

SpecConfirm == InitConfirm /\ [][NextConfirm]_vars

\* ------------------------------------------------------------ claims
HeldSubs == Keys(reviewing_subs)

Reviewers == {reviewing_subs[i].admin : i \in DOMAIN reviewing_subs}

\* the review queue: unconfirmed and in nobody's review
UnheldUnconfirmed ==
  {s \in DOMAIN submissions :
     ~submissions[s].is_confirmed /\ s \notin HeldSubs}

\* C1: a submission id is the key of at most one entry of reviewing_subs,
\* and no submission id is ever handed out by admin_confirmation to two
\* distinct admins.
C1_OneReviewerPerSubmission ==
  /\ \A i \in DOMAIN reviewing_subs : \A j \in DOMAIN reviewing_subs :
       reviewing_subs[i].sub = reviewing_subs[j].sub => i = j
  /\ \A p \in returned : \A q \in returned : p[1] = q[1] => p[2] = q[2]

\* two distinct admins hold a review each
C1_Witness ==
  /\ Len(reviewing_subs) = 2
  /\ reviewing_subs[1].admin # reviewing_subs[2].admin
  /\ Cardinality(returned) = 2

\* C2: no admin id is the value of two entries of reviewing_subs.
C2_OneReviewPerAdmin ==
  \A i \in DOMAIN reviewing_subs : \A j \in DOMAIN reviewing_subs :
    reviewing_subs[i].admin = reviewing_subs[j].admin => i = j

C4_RejectPostcondition ==
  [][\A task \in rejecting :
       (last' = Did("reject_submission", "ok")
          /\ reject_submission_end(task)) =>
         /\ task.sub \notin DOMAIN submissions'
         /\ \A i \in DOMAIN reviewing_subs' :
              reviewing_subs'[i].admin # task.admin]_vars

\* C5: a step of admin_confirmation that hands out a submission hands out
\* the smallest id (the earliest submitted) among the unconfirmed submissions
\* that are in nobody's review, and locks it for the requesting admin.
C5_Fifo ==
  [][\A u \in Users :
       (/\ last'.op = "admin_confirmation"
        /\ last'.result # "none"
        /\ admin_confirmation(u)) =>
         /\ UnheldUnconfirmed # {}
         /\ LET s == CHOOSE x \in UnheldUnconfirmed :
                       \A y \in UnheldUnconfirmed : x <= y
            IN  /\ Keys(reviewing_subs') = HeldSubs \cup {s}
                /\ Get(reviewing_subs', s) = u
                /\ <<s, u>> \in returned']_vars

\* the older submission is in review and the newer one has just been handed
\* out
C5_Witness ==
  /\ last.op = "admin_confirmation"
  /\ last.result # "none"
  /\ Len(reviewing_subs) = 2
  /\ reviewing_subs[1].sub < reviewing_subs[2].sub

\* C6: accept_submission triggered by an actor who is not the admin
\* recorded for s, and reject_submission by an admin with no entry, fail and
\* leave the table and reviewing_subs as they were.
C6_UnauthorizedFails ==
  [][/\ \A u \in Users : \A s \in SubIds :
          (/\ last'.op = "accept_submission"
           /\ accept_submission(u, s)
           /\ (s \notin HeldSubs \/ Get(reviewing_subs, s) # u)) =>
            /\ last'.result # "ok"
            /\ UNCHANGED <<submissions, reviewing_subs>>
     /\ \A u \in Users :
          (/\ last'.op = "reject_submission_begin"
           /\ reject_submission_begin(u)
           /\ u \notin Reviewers) =>
            /\ last'.result # "ok"
            /\ UNCHANGED <<submissions, reviewing_subs, rejecting>>]_vars

\* C7: every admin with an entry in reviewing_subs has an access level
\* above Editor, the level Submission.confirm asks for.
C7_ReviewersCanConfirm ==
  \A a \in Reviewers : access_level[a] > EditorLevel

\* C8: a confirmed Submission object has a confirming admin and a search
\* text that is the derivation of its class applied to its fields, at every
\* point of confirm and after it.
C8_ConfirmedInvariant ==
  obj.is_confirmed =>
    /\ obj.admin # None
    /\ obj.search_text = SearchText(obj)

\* C9: confirm(user) with user None or of level at most Editor ends in the
\* permission error with is_confirmed, admin and search_text as they were at
\* the call; no other user gets the permission error.
C9_ConfirmPermission ==
  /\ (arg = NoUser \/ arg.access_level <= EditorLevel) =>
       /\ cpc \in {"idle", "line100", "RuntimeError"}
       /\ obj.is_confirmed = pre.is_confirmed
       /\ obj.admin = pre.admin
       /\ obj.search_text = pre.search_text
  /\ cpc = "RuntimeError" => (arg = NoUser \/ arg.access_level <= EditorLevel)

\* an Editor has been refused on an object an Admin had confirmed
C9_Witness ==
  /\ cpc = "RuntimeError"
  /\ arg # NoUser
  /\ arg.access_level = EditorLevel
  /\ obj.is_confirmed
  /\ obj.admin # arg.user_id

\* C10: a step of edit_submission changes neither the table nor
\* reviewing_subs.
C10_EditChangesNothing ==
  [][last'.op = "edit_submission" =>
       UNCHANGED <<submissions, reviewing_subs>>]_vars

\* edit has just run on a table with a submission in review
C10_Witness ==
  /\ last.op = "edit_submission"
  /\ reviewing_subs # <<>>

\* C11: a step of admin_confirmation reports that nothing is pending exactly
\* when no unconfirmed submission is outside reviewing_subs, and then leaves
\* the table and reviewing_subs as they were; otherwise it returns an
\* unconfirmed submission that was in nobody's review and records it for
\* the requesting admin.
C11_RequestNext ==
  [][\A u \in Users :
       (last'.op = "admin_confirmation" /\ admin_confirmation(u)) =>
         IF UnheldUnconfirmed = {}
         THEN /\ last'.result = "none"
              /\ UNCHANGED <<submissions, reviewing_subs>>
         ELSE /\ last'.result = "ok"
              /\ UNCHANGED submissions
              /\ \E s \in UnheldUnconfirmed :
                   /\ reviewing_subs' = Append(reviewing_subs, Entry(s, u))
                   /\ <<s, u>> \in returned']_vars

\* C12: releasing a submission id that has no entry in reviewing_subs
\* raises no error and leaves reviewing_subs as it was: a step of
\* accept_submission, or the resumption of reject_submission, on an id that
\* is no key ends without an error.
C12_ReleaseIdempotent ==
  [][/\ \A task \in rejecting :
          (/\ last'.op = "reject_submission"
           /\ reject_submission_end(task)
           /\ task.sub \notin HeldSubs) =>
            /\ last'.result = "ok"
            /\ UNCHANGED reviewing_subs
     /\ \A u \in Users : \A s \in SubIds :
          (/\ last'.op = "accept_submission"
           /\ accept_submission(u, s)
           /\ s \notin HeldSubs) =>
            /\ last'.result = "ok"
            /\ UNCHANGED reviewing_subs]_vars

\* C13: confirmed and deleted are terminal.  No step takes a confirmed
\* submission out of the table, makes it unconfirmed or gives it an entry in
\* reviewing_subs; no step brings back a deleted submission or gives it an
\* entry in reviewing_subs.
C13_Terminal ==
  [][\A s \in SubIds :
       /\ (s \in DOMAIN submissions /\ submissions[s].is_confirmed) =>
            /\ s \in DOMAIN submissions'
            /\ submissions'[s].is_confirmed
            /\ s \notin Keys(reviewing_subs')
       /\ (s < next_id /\ s \notin DOMAIN submissions) =>
            /\ s \notin DOMAIN submissions'
            /\ s \notin Keys(reviewing_subs')]_vars

\* an accept and a reject have raced on one submission, which stays
\* confirmed after the reject resumed; another submission has been deleted
C13_Witness ==
  /\ last = Did("reject_submission", "KeyError")
  /\ \E s \in DOMAIN submissions : submissions[s].is_confirmed
  /\ \E s \in SubIds : s < next_id /\ s \notin DOMAIN submissions

\* C14: within a call of confirm, update_search_text runs before
\* is_confirmed becomes true: at no position of the call at which
\* update_search_text has not yet run is the flag of an object that was
\* unconfirmed at the call already true.
C14_DerivationBeforeFlag ==
  (cpc \in {"line100", "line102", "line103", "line104"}
     /\ ~pre.is_confirmed) =>
    ~obj.is_confirmed

\* the even positions after the base at which a clause with this word starts
ClausesOf(text, first, word) ==
  {i \in first..Len(text) : (i - first) % 2 = 0 /\ text[i] = word}

\* the clause of this word is in the text once, with this value, or not at
\* all
ClauseIff(text, first, word, present, value) ==
  IF present
  THEN /\ Cardinality(ClausesOf(text, first, word)) = 1
       /\ \A i \in ClausesOf(text, first, word) :
            i < Len(text) /\ text[i + 1] = value
  ELSE ClausesOf(text, first, word) = {}

\* every clause of the first word comes before every clause of the second
ClauseBefore(text, first, word1, word2) ==
  \A i \in ClausesOf(text, first, word1) :
    \A j \in ClausesOf(text, first, word2) : i < j

\* C15: the search text update_search_text gives a Document is the base
\* '<file type> dars <course>' followed by the professor, writer, year and
\* university clauses in that order and nothing else, each clause present
\* exactly when its field is not the unspecified value (the sentinel, 0 for
\* the year).
C15_DocumentSearchText ==
  (cpc = "returned" /\ obj.kind = "document") =>
    LET text == obj.search_text
    IN  /\ Len(text) >= 3
        /\ SubSeq(text, 1, 3) = <<obj.file_type, "dars", obj.course>>
        /\ ClauseIff(text, 4, "ostad", obj.professor # Unspecified,
                     obj.professor)
        /\ ClauseIff(text, 4, "nevisande", obj.writer # Unspecified,
                     obj.writer)
        /\ ClauseIff(text, 4, "sal", obj.semester_year # 0,
                     ToString(obj.semester_year))
        /\ ClauseIff(text, 4, "daneshgah", obj.university # Unspecified,
                     obj.university)
        /\ Len(text) = 3 + 2 * Cardinality(
                                 ClausesOf(text, 4, "ostad")
                                 \cup ClausesOf(text, 4, "nevisande")
                                 \cup ClausesOf(text, 4, "sal")
                                 \cup ClausesOf(text, 4, "daneshgah"))
        /\ ClauseBefore(text, 4, "ostad", "nevisande")
        /\ ClauseBefore(text, 4, "ostad", "sal")
        /\ ClauseBefore(text, 4, "ostad", "daneshgah")
        /\ ClauseBefore(text, 4, "nevisande", "sal")
        /\ ClauseBefore(text, 4, "nevisande", "daneshgah")
        /\ ClauseBefore(text, 4, "sal", "daneshgah")

\* a Document with every field given has been confirmed: all four clauses
C15_Witness ==
  /\ cpc = "returned"
  /\ obj.kind = "document"
  /\ obj.search_text = <<"jozve", "dars", "riazi", "ostad", "ostad_x",
                         "nevisande", "ali", "sal", "1401",
                         "daneshgah", "sharif">>

\* C16: the search text update_search_text gives a Profile starts with the
\* base 'ettelaat <title> daneshkade <faculty>', whatever the faculty is;
\* the faculty clause follows a second time exactly when the faculty is not
\* the sentinel, then the university clause exactly when the university is
\* not the sentinel, and nothing else: the faculty clause is in the text
\* twice for a specified faculty and once otherwise.
C16_ProfileSearchText ==
  (cpc = "returned" /\ obj.kind = "profile") =>
    LET text == obj.search_text
    IN  /\ Len(text) >= 4
        /\ SubSeq(text, 1, 4) =
             <<"ettelaat", obj.title, "daneshkade", obj.faculty>>
        /\ Cardinality(ClausesOf(text, 3, "daneshkade")) =
             IF obj.faculty # Unspecified THEN 2 ELSE 1
        /\ \A i \in ClausesOf(text, 3, "daneshkade") :
             i < Len(text) /\ text[i + 1] = obj.faculty
        /\ ClauseIff(text, 3, "daneshgah", obj.university # Unspecified,
                     obj.university)
        /\ Len(text) = 2 + 2 * Cardinality(
                                 ClausesOf(text, 3, "daneshkade")
                                 \cup ClausesOf(text, 3, "daneshgah"))
        /\ ClauseBefore(text, 3, "daneshkade", "daneshgah")

\* a Profile with faculty and university given has been confirmed: the
\* faculty clause twice, then the university clause
C16_Witness ==
  /\ cpc = "returned"
  /\ obj.kind = "profile"
  /\ obj.search_text = <<"ettelaat", "ostad_x", "daneshkade", "barq",
                         "daneshkade", "barq", "daneshgah", "sharif">>

\* C17: an entry of reviewing_subs stays, with the same admin, through every
\* step that is not a successful accept of its submission or a reject that
\* deletes its submission; while the entry is there admin_confirmation
\* hands its submission out to nobody.
C17_LockPersists ==
  [][\A s \in HeldSubs :
       \/ /\ s \in Keys(reviewing_subs')
          /\ Get(reviewing_subs', s) = Get(reviewing_subs, s)
          /\ \A u \in Users : <<s, u>> \in returned' => <<s, u>> \in returned
       \/ /\ last' = Did("accept_submission", "ok")
          /\ s \in DOMAIN submissions'
          /\ submissions'[s].is_confirmed
       \/ /\ last' = Did("reject_submission", "ok")
          /\ s \notin DOMAIN submissions']_vars

\* a submission is in the review of an Editor, who cannot accept it; it is
\* the only unconfirmed one and a request for the next submission has just
\* been answered with nothing pending
C17_Witness ==
  /\ last = Did("admin_confirmation", "none")
  /\ Len(reviewing_subs) = 1
  /\ access_level[reviewing_subs[1].admin] = EditorLevel
  /\ UnheldUnconfirmed = {}

\* C18: every key of reviewing_subs is the id of a submission that is in
\* the table and unconfirmed.
C18_LocksOnUnconfirmed ==
  \A s \in HeldSubs :
    s \in DOMAIN submissions /\ ~submissions[s].is_confirmed

\* confirm has just raised in accept_submission and the entry is still
\* there, while another submission left the table by a reject
C18_Witness ==
  /\ last = Did("accept_submission", "RuntimeError")
  /\ reviewing_subs # <<>>
  /\ \E s \in SubIds : s < next_id /\ s \notin DOMAIN submissions

\* C19: the submission a rejection removes is the one whose reject button
\* put the admin at the reason prompt.  The step of reject_submission that
\* handles the admin's reason resolves that submission, and the step that
\* resumes after the await removes the resolved submission, and no other,
\* from the table and from reviewing_subs.
C19_RejectsThePressed ==
  [][/\ \A u \in Users :
          (/\ last' = Did("reject_submission_begin", "ok")
           /\ reject_submission_begin(u)) =>
            rejecting' \subseteq rejecting \cup {Entry(pressed[u], u)}
     /\ \A task \in rejecting :
          (/\ last' = Did("reject_submission", "ok")
           /\ reject_submission_end(task)) =>
            /\ task.sub \in DOMAIN submissions
            /\ DOMAIN submissions' = DOMAIN submissions \ {task.sub}
            /\ task.sub \in HeldSubs
            /\ Keys(reviewing_subs') = HeldSubs \ {task.sub}]_vars

\* ---------------------------------------------------------- SpecLive
\* the admin recorded for a submission in review presses one of its buttons
HolderActs(s) ==
  /\ s \in HeldSubs
  /\ \/ accept_submission(Get(reviewing_subs, s), s)
     \/ get_rejection_reason(s)

\* Admins who may confirm keep asking for the next submission; the admin of
\* every review keeps pressing accept or reject; an admin at the reason
\* prompt sends a reason; the event loop resumes every suspended coroutine.
Fairness ==
  /\ \A u \in Users :
       WF_vars(access_level[u] > EditorLevel /\ admin_confirmation(u))
  /\ \A s \in SubIds : SF_vars(HolderActs(s))
  /\ \A u \in Users : SF_vars(reject_submission_begin(u))
  /\ \A s \in SubIds : \A u \in Users :
       WF_vars(reject_submission_end(Entry(s, u)))

SpecLive == Init /\ [][Next]_vars /\ Fairness

====
